---- MODULE Spec2Model ----
(***************************************************************************)
(* Register-level driver of the ADXL345 accelerometer (ADXL345.cpp).       *)
(* The driver state is the communication mode and the chip-select pin; the *)
(* environment is the board's pins, the Wire (I2C) and SPI peripherals and *)
(* a simulated ADXL345 register file that follows the bus protocols.       *)
(* Every handler is one action; the bus calls it makes are recorded, in    *)
(* order, in log.                                                          *)
(***************************************************************************)
EXTENDS Integers, Sequences, FiniteSets, TLC

(* ------------------------------ constants ------------------------------ *)
ADXL345_I2C_ADDRESS == 83      \* 0x53
ADXL345_COMM_I2C == "I2C"
ADXL345_COMM_SPI == "SPI"
LOW == 0
HIGH == 1
OUTPUT == 1
SPI_MODE3 == 3
NULL == 0
BufAddr == 1                   \* address of the caller's buffer

(* ------------------------------- bounds -------------------------------- *)
MaxSize == 2                   \* largest size passed to readRegs

BufLen == MaxSize + 1          \* capacity of the caller's buffer
Unwritten == 0 - 1             \* a buffer slot the call has not stored to
RegAddrs == {50, 109, 178}     \* 0x32, 0x6D (bit 6 set), 0xB2 (bit 7 set)
Values == {8, 165}             \* 0x08, 0xA5
CsPins == {0, 10}              \* default argument, and a usual wiring
Pins == 0..255
Bytes == 0..255

(* ------------------------------ bit helpers ---------------------------- *)
Bit(b, k) == (b \div (2 ^ k)) % 2

OrBit(b, k) == IF Bit(b, k) = 1 THEN b ELSE b + 2 ^ k

(* --------------------------- simulated board --------------------------- *)
\* Content of the register file at power-up: every register differs.
ResetValue(r) == (3 * r + 1) % 256

Emit(hw, e) == [hw EXCEPT !.log = Append(@, e)]

pinMode(hw, pin, mode) ==
    Emit([hw EXCEPT !.dirs = IF mode = OUTPUT THEN @ \cup {pin} ELSE @ \ {pin}],
         [op |-> "pinMode", pin |-> pin, mode |-> mode])

\* The device's chip-select input is wired to board pin hw.csLine: a falling
\* edge opens a transaction, a high level closes it.
Deselected == [phase |-> "idle", read |-> FALSE, mb |-> FALSE, ptr |-> 0]

digitalWrite(hw, pin, val) ==
    LET spi2 == IF pin # hw.csLine THEN hw.spi
                ELSE IF val = HIGH THEN Deselected
                ELSE IF hw.pins[pin] = HIGH THEN [hw.spi EXCEPT !.phase = "cmd"]
                ELSE hw.spi
    IN Emit([hw EXCEPT !.pins[pin] = val, !.spi = spi2],
            [op |-> "digitalWrite", pin |-> pin, val |-> val])

SPI_begin(hw) == Emit(hw, [op |-> "SPI.begin"])

SPI_setDataMode(hw, mode) == Emit(hw, [op |-> "SPI.setDataMode", mode |-> mode])

\* One byte exchanged with the device: the first byte after the falling edge
\* is the command (bit 7 read, bit 6 multi-byte, low 6 bits register), the
\* following bytes are data for the addressed register.  The event records
\* the level of the chip-select line during the byte.
SPI_transfer(hw, out) ==
    LET s == hw.spi
        in == IF s.phase = "data" /\ s.read THEN hw.regs[s.ptr] ELSE 0
        regs2 == IF s.phase = "data" /\ ~s.read
                 THEN [hw.regs EXCEPT ![s.ptr] = out] ELSE hw.regs
        spi2 == IF s.phase = "cmd"
                THEN [phase |-> "data", read |-> Bit(out, 7) = 1,
                      mb |-> Bit(out, 6) = 1, ptr |-> out % 64]
                ELSE IF s.phase = "data" /\ s.mb
                THEN [s EXCEPT !.ptr = (@ + 1) % 64]
                ELSE s
    IN Emit([hw EXCEPT !.regs = regs2, !.spi = spi2, !.ret = in],
            [op |-> "SPI.transfer", out |-> out, in |-> in,
             cs |-> hw.pins[hw.csLine]])

Wire_begin(hw) == Emit(hw, [op |-> "Wire.begin"])

Wire_beginTransmission(hw, addr) ==
    Emit([hw EXCEPT !.wire.txAddr = addr, !.wire.txBuf = <<>>],
         [op |-> "Wire.beginTransmission", addr |-> addr])

Wire_write(hw, data) ==
    Emit([hw EXCEPT !.wire.txBuf = Append(@, data)],
         [op |-> "Wire.write", data |-> data])

\* The queued bytes go out: the first sets the register pointer, each further
\* byte is stored at the pointer, which then advances.
RECURSIVE StoreFrom(_, _, _)
StoreFrom(regs, ptr, bytes) ==
    IF bytes = <<>> THEN [regs |-> regs, ptr |-> ptr]
    ELSE StoreFrom([regs EXCEPT ![ptr] = Head(bytes)], (ptr + 1) % 256, Tail(bytes))

Wire_endTransmission(hw, stop) ==
    LET w == hw.wire
        acked == w.txAddr = ADXL345_I2C_ADDRESS /\ w.txBuf # <<>>
        st == IF acked THEN StoreFrom(hw.regs, Head(w.txBuf), Tail(w.txBuf))
              ELSE [regs |-> hw.regs, ptr |-> w.ptr]
    IN Emit([hw EXCEPT !.regs = st.regs, !.wire.ptr = st.ptr,
                       !.wire.txBuf = <<>>, !.wire.held = ~stop],
            [op |-> "Wire.endTransmission", stop |-> stop])

\* The device answers quantity bytes, starting at the register pointer.
Wire_requestFrom(hw, addr, quantity, stop) ==
    LET w == hw.wire
        rx == IF addr = ADXL345_I2C_ADDRESS
              THEN [i \in 1..quantity |-> hw.regs[(w.ptr + i - 1) % 256]]
              ELSE <<>>
    IN Emit([hw EXCEPT !.wire.rxBuf = rx, !.wire.held = ~stop,
                       !.wire.ptr = (@ + Len(rx)) % 256, !.ret = Len(rx)],
            [op |-> "Wire.requestFrom", addr |-> addr,
             quantity |-> quantity, stop |-> stop])

Wire_available(hw) == Len(hw.wire.rxBuf)

Wire_read(hw) ==
    LET w == hw.wire
        v == IF w.rxBuf = <<>> THEN 255 ELSE Head(w.rxBuf)
    IN Emit([hw EXCEPT !.wire.rxBuf = IF @ = <<>> THEN @ ELSE Tail(@), !.ret = v],
            [op |-> "Wire.read", in |-> v])

(* ------------------------------- driver -------------------------------- *)
VARIABLES communicationType, csPin, pins, dirs, regs, spi, wire, log, call

vars == <<communicationType, csPin, pins, dirs, regs, spi, wire, log, call>>

\* The board and the device as one value, with an empty log.
Board(cs) == [pins |-> pins, dirs |-> dirs, regs |-> regs, spi |-> spi,
              wire |-> wire, csLine |-> cs, log |-> <<>>, ret |-> 0,
              buf |-> [i \in 1..BufLen |-> Unwritten]]

PowerUp(cs) == [pins |-> [p \in Pins |-> LOW], dirs |-> {},
                regs |-> [r \in Bytes |-> ResetValue(r)],
                spi |-> Deselected,
                wire |-> [txAddr |-> 0, txBuf |-> <<>>, rxBuf |-> <<>>,
                          ptr |-> 0, held |-> FALSE],
                csLine |-> cs, log |-> <<>>, ret |-> 0,
                buf |-> [i \in 1..BufLen |-> Unwritten]]

ADXL345(hw, commType, cs) ==
    IF commType = ADXL345_COMM_SPI
    THEN digitalWrite(pinMode(SPI_setDataMode(SPI_begin(hw), SPI_MODE3), cs, OUTPUT),
                      cs, HIGH)
    ELSE IF commType = ADXL345_COMM_I2C
    THEN Wire_begin(hw)
    ELSE hw

\* writeReg sending the value before the register address on I2C.
writeReg_DataFirst(hw, commType, cs, regAddr, data) ==
    IF commType = ADXL345_COMM_I2C
    THEN Wire_endTransmission(
            Wire_write(Wire_write(
                Wire_beginTransmission(hw, ADXL345_I2C_ADDRESS), data), regAddr),
            TRUE)
    ELSE IF commType = ADXL345_COMM_SPI
    THEN digitalWrite(
            SPI_transfer(SPI_transfer(digitalWrite(hw, cs, LOW), regAddr), data),
            cs, HIGH)
    ELSE hw

\* writeReg clearing the read bit of the address it transfers on SPI.
writeReg_MaskedAddress(hw, commType, cs, regAddr, data) ==
    IF commType = ADXL345_COMM_I2C
    THEN Wire_endTransmission(
            Wire_write(Wire_write(
                Wire_beginTransmission(hw, ADXL345_I2C_ADDRESS), regAddr), data),
            TRUE)
    ELSE IF commType = ADXL345_COMM_SPI
    THEN digitalWrite(
            SPI_transfer(SPI_transfer(digitalWrite(hw, cs, LOW), regAddr % 128), data),
            cs, HIGH)
    ELSE hw

writeReg(hw, commType, cs, regAddr, data) ==
    IF commType = ADXL345_COMM_I2C
    THEN Wire_endTransmission(
            Wire_write(Wire_write(
                Wire_beginTransmission(hw, ADXL345_I2C_ADDRESS), regAddr), data),
            TRUE)
    ELSE IF commType = ADXL345_COMM_SPI
    THEN digitalWrite(
            SPI_transfer(SPI_transfer(digitalWrite(hw, cs, LOW), regAddr), data),
            cs, HIGH)
    ELSE hw

\* readReg releasing the bus after the register address on I2C.
readReg_StopAfterAddress(hw, commType, cs, regAddr) ==
    IF commType = ADXL345_COMM_I2C
    THEN Wire_read(
            Wire_requestFrom(
                Wire_endTransmission(
                    Wire_write(Wire_beginTransmission(hw, ADXL345_I2C_ADDRESS), regAddr),
                    TRUE),
                ADXL345_I2C_ADDRESS, 1, TRUE))
    ELSE IF commType = ADXL345_COMM_SPI
    THEN LET spiAddress == OrBit(regAddr, 7)
             t == SPI_transfer(SPI_transfer(digitalWrite(hw, cs, LOW), spiAddress), 0)
         IN digitalWrite(t, spiAddress, HIGH)
    ELSE hw

\* readReg with the two mode tests exchanged.
readReg_SwappedDispatch(hw, commType, cs, regAddr) ==
    IF commType = ADXL345_COMM_SPI
    THEN Wire_read(
            Wire_requestFrom(
                Wire_endTransmission(
                    Wire_write(Wire_beginTransmission(hw, ADXL345_I2C_ADDRESS), regAddr),
                    FALSE),
                ADXL345_I2C_ADDRESS, 1, TRUE))
    ELSE IF commType = ADXL345_COMM_I2C
    THEN LET spiAddress == OrBit(regAddr, 7)
             t == SPI_transfer(SPI_transfer(digitalWrite(hw, cs, LOW), spiAddress), 0)
         IN digitalWrite(t, spiAddress, HIGH)
    ELSE hw

readReg(hw, commType, cs, regAddr) ==
    IF commType = ADXL345_COMM_I2C
    THEN Wire_read(
            Wire_requestFrom(
                Wire_endTransmission(
                    Wire_write(Wire_beginTransmission(hw, ADXL345_I2C_ADDRESS), regAddr),
                    FALSE),
                ADXL345_I2C_ADDRESS, 1, TRUE))
    ELSE IF commType = ADXL345_COMM_SPI
    THEN LET spiAddress == OrBit(regAddr, 7)
             t == SPI_transfer(SPI_transfer(digitalWrite(hw, cs, LOW), spiAddress), 0)
         IN digitalWrite(t, spiAddress, HIGH)
    ELSE hw

\* while(Wire.available()) *pBuffer++ = Wire.read();  i is the next slot.
RECURSIVE DrainWire(_, _)
DrainWire(hw, i) ==
    IF Wire_available(hw) # 0
    THEN LET r == Wire_read(hw)
         IN DrainWire([r EXCEPT !.buf[i] = r.ret], i + 1)
    ELSE hw

\* for(i = 0; i < size; i++) *pBuffer++ = SPI.transfer(0x00);
RECURSIVE Burst(_, _, _)
Burst(hw, i, size) ==
    IF i < size
    THEN LET r == SPI_transfer(hw, 0)
         IN Burst([r EXCEPT !.buf[i + 1] = r.ret], i + 1, size)
    ELSE hw

\* The multi-byte bit set for every size >= 1.
spiAddressOf_MultiFromOne(regAddr, size) ==
    IF size > 0 THEN OrBit(OrBit(regAddr, 7), 6) ELSE OrBit(regAddr, 7)

\* The first byte readRegs transfers on SPI.
spiAddressOf(regAddr, size) ==
    IF size > 1 THEN OrBit(OrBit(regAddr, 7), 6) ELSE OrBit(regAddr, 7)

\* readRegs without the test of pBuffer.
readRegs_NoNullCheck(hw, commType, cs, regAddr, pBuffer, size) ==
    IF commType = ADXL345_COMM_I2C
    THEN DrainWire(
            Wire_requestFrom(
                Wire_endTransmission(
                    Wire_write(Wire_beginTransmission(hw, ADXL345_I2C_ADDRESS), regAddr),
                    TRUE),
                ADXL345_I2C_ADDRESS, size, TRUE),
            1)
    ELSE IF commType = ADXL345_COMM_SPI
    THEN LET spiAddress == spiAddressOf(regAddr, size)
         IN digitalWrite(
                Burst(SPI_transfer(digitalWrite(hw, cs, LOW), spiAddress), 0, size),
                cs, HIGH)
    ELSE hw

readRegs(hw, commType, cs, regAddr, pBuffer, size) ==
    IF pBuffer = NULL THEN hw
    ELSE IF commType = ADXL345_COMM_I2C
    THEN DrainWire(
            Wire_requestFrom(
                Wire_endTransmission(
                    Wire_write(Wire_beginTransmission(hw, ADXL345_I2C_ADDRESS), regAddr),
                    TRUE),
                ADXL345_I2C_ADDRESS, size, TRUE),
            1)
    ELSE IF commType = ADXL345_COMM_SPI
    THEN LET spiAddress == spiAddressOf(regAddr, size)
         IN digitalWrite(
                Burst(SPI_transfer(digitalWrite(hw, cs, LOW), spiAddress), 0, size),
                cs, HIGH)
    ELSE hw

(* ------------------------------- actions ------------------------------- *)
NoCall == [name |-> "ADXL345", regAddr |-> 0, data |-> 0, size |-> 0,
           pBuffer |-> NULL, ret |-> 0, buf |-> <<>>]

\* The board after a handler has run, and what the caller saw of it.
Commit(r, c) ==
    /\ pins' = r.pins
    /\ dirs' = r.dirs
    /\ regs' = r.regs
    /\ spi' = r.spi
    /\ wire' = r.wire
    /\ log' = r.log
    /\ call' = c
    /\ UNCHANGED <<communicationType, csPin>>

Init ==
    \E commType \in {ADXL345_COMM_I2C, ADXL345_COMM_SPI}, cs \in CsPins :
        LET r == ADXL345(PowerUp(cs), commType, cs)
        IN /\ communicationType = commType
           /\ csPin = cs
           /\ pins = r.pins
           /\ dirs = r.dirs
           /\ regs = r.regs
           /\ spi = r.spi
           /\ wire = r.wire
           /\ log = r.log
           /\ call = NoCall

WriteReg ==
    \E regAddr \in RegAddrs, data \in Values :
        LET r == writeReg(Board(csPin), communicationType, csPin, regAddr, data)
        IN Commit(r, [NoCall EXCEPT !.name = "writeReg", !.regAddr = regAddr,
                                    !.data = data])

ReadReg ==
    \E regAddr \in RegAddrs :
        LET r == readReg(Board(csPin), communicationType, csPin, regAddr)
        IN Commit(r, [NoCall EXCEPT !.name = "readReg", !.regAddr = regAddr,
                                    !.ret = r.ret])

ReadRegs ==
    \E regAddr \in RegAddrs, pBuffer \in {NULL, BufAddr}, size \in 0..MaxSize :
        LET r == readRegs(Board(csPin), communicationType, csPin, regAddr,
                          pBuffer, size)
        IN Commit(r, [NoCall EXCEPT !.name = "readRegs", !.regAddr = regAddr,
                                    !.size = size, !.pBuffer = pBuffer,
                                    !.buf = r.buf])

Next == WriteReg \/ ReadReg \/ ReadRegs

Spec == Init /\ [][Next]_vars


(* ------------------------- reading the call log ------------------------ *)
IsTransfer(e) == e.op = "SPI.transfer"

IsWireCall(e) == e.op \in {"Wire.begin", "Wire.beginTransmission", "Wire.write",
                           "Wire.endTransmission", "Wire.requestFrom", "Wire.read"}

IsSpiCall(e) == e.op \in {"SPI.begin", "SPI.setDataMode", "SPI.transfer"}

IsPinCall(e) == e.op \in {"pinMode", "digitalWrite"}

\* What reaches the I2C bus: Wire.read only empties the receive buffer.
OnI2CBus(e) == IsWireCall(e) /\ e.op # "Wire.read"

Transfers == SelectSeq(log, IsTransfer)

I2CBus == SelectSeq(log, OnI2CBus)

Ops(seq) == [i \in 1..Len(seq) |-> seq[i].op]

InSPI == communicationType = ADXL345_COMM_SPI

InI2C == communicationType = ADXL345_COMM_I2C

\* A read that went to the bus, and the number of registers it asked for.
IsRead == \/ call.name = "readReg"
          \/ call.name = "readRegs" /\ call.pBuffer # NULL

Count == IF call.name = "readReg" THEN 1 ELSE call.size

\* The register a bus address selects in the simulated register file.
RegisterAt(a) == IF InSPI THEN a % 64 ELSE a % 256

(* ------------------------------- claims -------------------------------- *)

\* C1: in SPI mode the stored chip-select line is low during every byte
\* transfer of an operation and high again when the operation has returned,
\* so it is high after construction and after every operation.
C1_ChipSelectFramesTransaction ==
    InSPI =>
        /\ pins[csPin] = HIGH
        /\ \A i \in 1..Len(log) : IsTransfer(log[i]) => log[i].cs = LOW

\* C2: in both modes, writeReg(a, v) followed by readReg(a) returns v.
C2_WriteThenReadReturnsValue ==
    [][(/\ call.name = "writeReg"
        /\ call'.name = "readReg"
        /\ call'.regAddr = call.regAddr) => call'.ret = call.data]_vars

C4_Bit6OnlyFromCount ==
    (InSPI /\ IsRead) =>
        /\ Bit(Transfers[1].out, 7) = 1
        /\ Bit(Transfers[1].out, 6) = 1 <=> Count > 1

\* C4: in SPI mode the first byte of a read is the register address with bit 7
\* set, and its bit 6 is set if and only if count > 1 or bit 6 of the register
\* address is set.
C4_ReadAddressEncoding ==
    (InSPI /\ IsRead) =>
        /\ Bit(Transfers[1].out, 7) = 1
        /\ Bit(Transfers[1].out, 6) = 1 <=> (Count > 1 \/ Bit(call.regAddr, 6) = 1)
        /\ Transfers[1].out % 64 = call.regAddr % 64

C4_Witness ==
    /\ InSPI
    /\ call.name = "readRegs" /\ call.pBuffer # NULL /\ call.size = 1
    /\ Bit(call.regAddr, 6) = 1
    /\ Bit(Transfers[1].out, 6) = 1

\* C5: in I2C mode writeReg is one transaction to 0x53 carrying the register
\* address and then the value; readRegs is one transaction to 0x53 carrying the
\* register address only, then one request to 0x53 for size bytes, and nothing
\* else reaches the bus.
C5_I2CTransactions ==
    InI2C =>
        /\ call.name = "writeReg" =>
              /\ Ops(log) = <<"Wire.beginTransmission", "Wire.write", "Wire.write",
                              "Wire.endTransmission">>
              /\ log[1].addr = ADXL345_I2C_ADDRESS
              /\ log[2].data = call.regAddr
              /\ log[3].data = call.data
        /\ (call.name = "readRegs" /\ call.pBuffer # NULL) =>
              /\ Ops(I2CBus) = <<"Wire.beginTransmission", "Wire.write",
                                 "Wire.endTransmission", "Wire.requestFrom">>
              /\ SubSeq(log, 1, 4) = I2CBus
              /\ log[1].addr = ADXL345_I2C_ADDRESS
              /\ log[2].data = call.regAddr
              /\ log[4].addr = ADXL345_I2C_ADDRESS
              /\ log[4].quantity = call.size

C5_Witness ==
    /\ InI2C
    /\ call.name = "writeReg"
    /\ Len(log) = 4
    /\ regs[call.regAddr] = call.data

\* C6: readRegs with a null buffer does nothing: no bus call, no pin write, no
\* store to a buffer, and the handle, the board and the device are unchanged.
C6_NullBufferIsNoOp ==
    [][(call'.name = "readRegs" /\ call'.pBuffer = NULL) =>
            /\ log' = <<>>
            /\ \A i \in 1..BufLen : call'.buf[i] = Unwritten
            /\ UNCHANGED <<communicationType, csPin, pins, dirs, regs, spi, wire>>]_vars

C6_Witness ==
    /\ call.name = "readRegs" /\ call.pBuffer = NULL /\ call.size > 0
    /\ log = <<>>

\* Every call of the log is on the bus of the stored mode.
BusOfMode ==
    /\ InI2C => \A i \in 1..Len(log) : IsWireCall(log[i])
    /\ InSPI => \A i \in 1..Len(log) : IsSpiCall(log[i]) \/ IsPinCall(log[i])

\* C7: no operation changes the stored mode or the stored chip-select pin, and
\* every operation uses only the bus of the mode: no SPI transfer and no pin
\* write on an I2C handle, no I2C call on an SPI handle.
C7_ModeFixedAndBusOfMode ==
    BusOfMode /\ [][UNCHANGED <<communicationType, csPin>> /\ BusOfMode']_vars

C7_Witness ==
    /\ InI2C
    /\ call.name = "readReg"
    /\ Len(log) = 5
    /\ call.ret = regs[call.regAddr]

\* C8 as stated: in SPI mode the first byte writeReg transfers has bit 7
\* clear for every register address, and the second byte is the value.
C8_WriteNeverReadCommand ==
    (InSPI /\ call.name = "writeReg") =>
        /\ Bit(Transfers[1].out, 7) = 0
        /\ Transfers[2].out = call.data

\* C8: in SPI mode writeReg transfers two bytes, the register address exactly
\* as passed and then the value, so bit 7 of the first byte is clear exactly
\* when the register address is below 0x80.
C8_WriteAddressRaw ==
    (InSPI /\ call.name = "writeReg") =>
        /\ Len(Transfers) = 2
        /\ Transfers[1].out = call.regAddr
        /\ Bit(Transfers[1].out, 7) = 0 <=> call.regAddr < 128
        /\ Transfers[2].out = call.data

C8_Witness ==
    /\ InSPI
    /\ call.name = "writeReg"
    /\ call.regAddr >= 128
    /\ Bit(Transfers[1].out, 7) = 1

\* C9 as stated: in I2C mode readReg and readRegs both end the transaction
\* that carries the register address without a stop, then request the bytes
\* with a stop; readReg requests one byte.
C9_AddressHeldOpen ==
    (InI2C /\ IsRead) =>
        /\ Len(I2CBus) = 4
        /\ I2CBus[3].op = "Wire.endTransmission" /\ I2CBus[3].stop = FALSE
        /\ I2CBus[4].op = "Wire.requestFrom" /\ I2CBus[4].stop = TRUE
        /\ I2CBus[4].quantity = Count

\* C9: in I2C mode readReg ends the transaction that carries the register
\* address without a stop, readRegs ends it with a stop; both then request the
\* bytes (one for readReg, size for readRegs) with a stop, so the bus is
\* released when the read returns.
C9_HeldOpenOnlyInReadReg ==
    (InI2C /\ IsRead) =>
        /\ Len(I2CBus) = 4
        /\ I2CBus[2].op = "Wire.write" /\ I2CBus[2].data = call.regAddr
        /\ I2CBus[3].op = "Wire.endTransmission"
        /\ I2CBus[3].stop = (call.name = "readRegs")
        /\ I2CBus[4].op = "Wire.requestFrom" /\ I2CBus[4].stop = TRUE
        /\ I2CBus[4].quantity = Count
        /\ ~wire.held

C9_Witness ==
    /\ InI2C
    /\ call.name = "readRegs" /\ call.pBuffer # NULL /\ call.size >= 2
    /\ I2CBus[3].stop = TRUE
    /\ I2CBus[4].quantity = call.size

\* C10: in SPI mode every pin write of the constructor and of the three
\* operations targets the stored chip-select line, and every other pin keeps
\* the level it had at power-up.
C10_OnlyChipSelectPinWritten ==
    InSPI =>
        /\ \A i \in 1..Len(log) : IsPinCall(log[i]) => log[i].pin = csPin
        /\ \A p \in Pins \ {csPin} : pins[p] = LOW

====
